---- MODULE Spec2Model ----
(***************************************************************************)
(* Model of sales_dashboard.py: the financial-calendar mapping             *)
(* (get_fin_year, get_fin_week, get_week_label), the number formatter      *)
(* (indian_format), the sidebar year selection and build_card, run once    *)
(* per entry of DOMAIN_ORDER.                                              *)
(*                                                                         *)
(* Text is modelled as a sequence of one-character strings, so that        *)
(* slicing, reversal, joining and lexicographic comparison are computed    *)
(* the way Python computes them.                                           *)
(***************************************************************************)
EXTENDS Integers, Sequences, FiniteSets, TLC

VARIABLES
    \* --- one call of indian_format
    fmt_x,          \* the argument
    fmt_out,        \* the returned text
    fmt_pc,         \* "call" | "returned"
    \* --- the calendar mapper applied to two dates, cal_a <= cal_b
    cal_a, cal_b,   \* dates
    ann_a, ann_b,   \* their annotations (Financial Year, Week, Week Label)
    \* --- one run of the script
    file_exists,    \* os.path.exists(excel_path)
    raw,            \* the rows of sales_data.xlsx: Date, Domain, Revenue
    df,             \* the annotated dataframe
    pc,             \* position of the script
    fy_options, fy1, available_fy2, fy2,
    dom_i,          \* index of the for loop over DOMAIN_ORDER
    sections,       \* the expanders rendered so far, in order
    error_msg,      \* the st.error text shown, "" when none
    build_calls     \* number of build_card invocations of this run

fmtVars  == <<fmt_x, fmt_out, fmt_pc>>
calVars  == <<cal_a, cal_b, ann_a, ann_b>>
dashVars == <<file_exists, raw, df, pc, fy_options, fy1, available_fy2, fy2,
              dom_i, sections, error_msg, build_calls>>
vars     == <<fmt_x, fmt_out, fmt_pc, cal_a, cal_b, ann_a, ann_b,
              file_exists, raw, df, pc, fy_options, fy1, available_fy2, fy2,
              dom_i, sections, error_msg, build_calls>>

-----------------------------------------------------------------------------
(* Bounds of the model *)

\* digits of the mantissa range fed to indian_format: 0 .. MaxMantissa
MaxMantissa == 1300
\* trailing zeros appended to a mantissa: 10^0 .. 10^MaxExp
MaxExp == 4
\* calendar years the two dates of the calendar mapper range over
NumCalYears == 2
\* days the later of the two dates may be ahead of the earlier one
MaxAhead == 370
\* rows of the spreadsheet
MaxRows == 4

-----------------------------------------------------------------------------
(* Text helpers: Python str, slicing, reversal, join, comparison *)

DigitChars == <<"0", "1", "2", "3", "4", "5", "6", "7", "8", "9">>

\* the characters the script's texts are made of, in code-point order
AsciiOrder ==
    <<" ", ",", "-", "0", "1", "2", "3", "4", "5", "6", "7", "8", "9", ":",
      "A", "D", "F", "J", "M", "N", "O", "S", "W",
      "a", "b", "c", "e", "g", "k", "l", "n", "o", "p", "r", "t", "u", "v", "y">>

CharOrd(c) == CHOOSE i \in 1..Len(AsciiOrder) : AsciiOrder[i] = c

RECURSIVE NatStr(_)
NatStr(n) ==
    IF n < 10 THEN <<DigitChars[n + 1]>>
    ELSE NatStr(n \div 10) \o <<DigitChars[(n % 10) + 1]>>

\* str(x) of a Python int
Str(x) == IF x < 0 THEN <<"-">> \o NatStr(-x) ELSE NatStr(x)

\* s[::-1]
Reverse(s) == [i \in 1..Len(s) |-> s[Len(s) + 1 - i]]

\* s[:n] and s[n:] ; a slice past the end is cut short, never an error
Take(s, n) == SubSeq(s, 1, IF n < Len(s) THEN n ELSE Len(s))
Drop(s, n) == SubSeq(s, (IF n < Len(s) THEN n ELSE Len(s)) + 1, Len(s))

\* s[-n:]
LastN(s, n) == SubSeq(s, (IF n < Len(s) THEN Len(s) - n ELSE 0) + 1, Len(s))

\* sep.join(parts)
RECURSIVE Join(_, _)
Join(sep, parts) ==
    IF Len(parts) = 0 THEN <<>>
    ELSE IF Len(parts) = 1 THEN parts[1]
    ELSE parts[1] \o sep \o Join(sep, Tail(parts))

\* Python's  a < b  on str: lexicographic by code point
RECURSIVE StrLess(_, _)
StrLess(a, b) ==
    IF Len(b) = 0 THEN FALSE
    ELSE IF Len(a) = 0 THEN TRUE
    ELSE IF a[1] = b[1] THEN StrLess(Tail(a), Tail(b))
    ELSE CharOrd(a[1]) < CharOrd(b[1])

-----------------------------------------------------------------------------
(* Number formatter *)

\* while s: groups.append(s[:2]); s = s[2:]
RECURSIVE PairGroups(_)
PairGroups(s) ==
    IF Len(s) = 0 THEN <<>>
    ELSE <<Take(s, 2)>> \o PairGroups(Drop(s, 2))

\* a grouping that takes three digits every time (the western grouping)
RECURSIVE TripleGroups(_)
TripleGroups(s) ==
    IF Len(s) = 0 THEN <<>>
    ELSE <<Take(s, 3)>> \o TripleGroups(Drop(s, 3))

indian_format_western(x) ==
    LET s      == Reverse(Str(x))
        groups == <<Take(s, 3)>> \o TripleGroups(Drop(s, 3))
        back   == Reverse(groups)
    IN  Join(<<",">>, [i \in 1..Len(back) |-> Reverse(back[i])])

\* indian_format(x) for an int x (int(x) succeeds and leaves x as it is)
indian_format(x) ==
    LET s      == Reverse(Str(x))
        groups == <<Take(s, 3)>> \o PairGroups(Drop(s, 3))
        back   == Reverse(groups)
    IN  Join(<<",">>, [i \in 1..Len(back) |-> Reverse(back[i])])

-----------------------------------------------------------------------------
(* Dates: datetime arithmetic and strftime *)

Date(y, m, d) == [year |-> y, month |-> m, day |-> d]

IsLeap(y) == (y % 4 = 0) /\ ((y % 100 # 0) \/ (y % 400 = 0))

DaysInMonth(y, m) ==
    IF m = 2 THEN (IF IsLeap(y) THEN 29 ELSE 28)
    ELSE IF m \in {4, 6, 9, 11} THEN 30 ELSE 31

RECURSIVE DaysBeforeMonth(_, _)
DaysBeforeMonth(y, m) ==
    IF m = 1 THEN 0 ELSE DaysBeforeMonth(y, m - 1) + DaysInMonth(y, m - 1)

\* the proleptic Gregorian ordinal of a date; (a - b).days is its difference
Ordinal(d) ==
    LET y == d.year - 1
    IN  365 * y + (y \div 4) - (y \div 100) + (y \div 400)
        + DaysBeforeMonth(d.year, d.month) + d.day

DaysBetween(a, b) == Ordinal(a) - Ordinal(b)

\* d + Timedelta(days = n), n >= 0
AddDays(d, n) ==
    LET o == Ordinal(d) + n
        y == CHOOSE yy \in d.year .. (d.year + (n \div 365) + 1) :
                 /\ Ordinal(Date(yy, 1, 1)) <= o
                 /\ o < Ordinal(Date(yy + 1, 1, 1))
        m == CHOOSE mm \in 1..12 :
                 /\ Ordinal(Date(y, mm, 1)) <= o
                 /\ o < Ordinal(Date(y, mm, 1)) + DaysInMonth(y, mm)
    IN  Date(y, m, o - Ordinal(Date(y, m, 1)) + 1)

MonthAbbr ==
    << <<"J", "a", "n">>, <<"F", "e", "b">>, <<"M", "a", "r">>,
       <<"A", "p", "r">>, <<"M", "a", "y">>, <<"J", "u", "n">>,
       <<"J", "u", "l">>, <<"A", "u", "g">>, <<"S", "e", "p">>,
       <<"O", "c", "t">>, <<"N", "o", "v">>, <<"D", "e", "c">> >>

\* d.strftime('%b %d'): month abbreviation, space, day padded to two digits
StrfMonDay(d) ==
    MonthAbbr[d.month] \o <<" ">>
        \o (IF d.day < 10 THEN <<"0">> ELSE <<>>) \o NatStr(d.day)

-----------------------------------------------------------------------------
(* Calendar mapper *)

\* the financial year with April still counted to the year before
get_fin_year_through_april(d) ==
    LET y == d.year
    IN  IF d.month <= 4
        THEN Str(y - 1) \o <<"-">> \o LastN(Str(y), 2)
        ELSE Str(y) \o <<"-">> \o LastN(Str(y + 1), 2)

get_fin_year(d) ==
    LET y == d.year
    IN  IF d.month < 4
        THEN Str(y - 1) \o <<"-">> \o LastN(Str(y), 2)
        ELSE Str(y) \o <<"-">> \o LastN(Str(y + 1), 2)

\* the week counted from an April 1 that only months after April belong to
get_fin_week_after_april(d) ==
    LET fy_start == Date(IF d.month > 4 THEN d.year ELSE d.year - 1, 4, 1)
    IN  (DaysBetween(d, fy_start) \div 7) + 1

get_fin_week(d) ==
    LET fy_start == Date(IF d.month >= 4 THEN d.year ELSE d.year - 1, 4, 1)
    IN  (DaysBetween(d, fy_start) \div 7) + 1

get_week_label(d) ==
    LET fy_start   == Date(IF d.month >= 4 THEN d.year ELSE d.year - 1, 4, 1)
        week_num   == (DaysBetween(d, fy_start) \div 7) + 1
        week_start == AddDays(fy_start, 7 * (week_num - 1))
        week_end   == AddDays(week_start, 6)
    IN  <<"W", "e", "e", "k", " ">> \o Str(week_num) \o <<":", " ">>
            \o StrfMonDay(week_start) \o <<" ", "-", " ">> \o StrfMonDay(week_end)

\* the three columns df gets from df['Date'].apply(...)
Annotate(d) ==
    [fy |-> get_fin_year(d), week |-> get_fin_week(d), label |-> get_week_label(d)]

-----------------------------------------------------------------------------
(* The state the script's variables have while only a pure function runs *)

NoAnn == [fy |-> <<>>, week |-> 0, label |-> <<>>]
NoDate == Date(0, 0, 0)

FmtIdle ==
    /\ fmt_x = 0
    /\ fmt_out = <<>>
    /\ fmt_pc = "idle"

CalIdle ==
    /\ cal_a = NoDate
    /\ cal_b = NoDate
    /\ ann_a = NoAnn
    /\ ann_b = NoAnn

DashIdle ==
    /\ file_exists = FALSE
    /\ raw = {}
    /\ df = {}
    /\ pc = "idle"
    /\ fy_options = <<>>
    /\ fy1 = <<>>
    /\ available_fy2 = <<>>
    /\ fy2 = <<>>
    /\ dom_i = 0
    /\ sections = <<>>
    /\ error_msg = ""
    /\ build_calls = 0

-----------------------------------------------------------------------------
(* Specification SpecFmt: indian_format applied to an integer *)

RECURSIVE Pow10(_)
Pow10(e) == IF e = 0 THEN 1 ELSE 10 * Pow10(e - 1)

\* the integers handed to indian_format: every mantissa with every number
\* of trailing zeros, both signs, and the value the documentation quotes
FmtInputs ==
    { sgn * m * Pow10(e) : sgn \in {-1, 1}, m \in 0..MaxMantissa, e \in 0..MaxExp }
        \cup {1234567, -1234567}

InitFmt ==
    /\ fmt_x \in FmtInputs
    /\ fmt_out = <<>>
    /\ fmt_pc = "call"
    /\ CalIdle
    /\ DashIdle

FormatIndian ==
    /\ fmt_pc = "call"
    /\ fmt_out' = indian_format(fmt_x)
    /\ fmt_pc' = "returned"
    /\ UNCHANGED fmt_x
    /\ UNCHANGED calVars
    /\ UNCHANGED dashVars

NextFmt == FormatIndian

SpecFmt == InitFmt /\ [][NextFmt]_vars

-----------------------------------------------------------------------------
(* Specification SpecCal: the calendar mapper applied to a date and to    *)
(* the dates that follow it                                               *)

CalYears == 1999 .. (1998 + NumCalYears)

CalDates ==
    { Date(y, m, d) : y \in CalYears, m \in 1..12, d \in 1..31 }
        \ { dt \in { Date(y, m, d) : y \in CalYears, m \in 1..12, d \in 29..31 } :
                dt.day > DaysInMonth(dt.year, dt.month) }

InitCal ==
    /\ cal_a \in CalDates
    /\ cal_b = cal_a
    /\ ann_a = NoAnn
    /\ ann_b = NoAnn
    /\ FmtIdle
    /\ DashIdle

\* df['Date'].apply(get_fin_year), .apply(get_fin_week), .apply(get_week_label)
CalAnnotate ==
    /\ ann_a = NoAnn
    /\ ann_a' = Annotate(cal_a)
    /\ ann_b' = Annotate(cal_b)
    /\ UNCHANGED <<cal_a, cal_b>>
    /\ UNCHANGED fmtVars
    /\ UNCHANGED dashVars

\* the later date advances by one day and is mapped again
CalAdvance ==
    /\ ann_a # NoAnn
    /\ AddDays(cal_b, 1).year \in CalYears
    /\ DaysBetween(cal_b, cal_a) < MaxAhead
    /\ cal_b' = AddDays(cal_b, 1)
    /\ ann_b' = Annotate(cal_b')
    /\ UNCHANGED <<cal_a, ann_a>>
    /\ UNCHANGED fmtVars
    /\ UNCHANGED dashVars

NextCal == CalAnnotate \/ CalAdvance

SpecCal == InitCal /\ [][NextCal]_vars

-----------------------------------------------------------------------------
(* Aggregator: build_card *)

None == "<None>"

DOMAIN_ORDER ==
    <<None, "Training", "Tech Alumni", "Whatsapp API Business", "G-Suite",
      "Tech Assist Recruitment", "Other", "Consulting">>

Dash == <<"-">>

\* Series.sum() of the Revenue column of a set of rows
RECURSIVE SumRevenue(_)
SumRevenue(rows) ==
    IF rows = {} THEN 0
    ELSE LET r == CHOOSE x \in rows : TRUE
         IN  r.Revenue + SumRevenue(rows \ {r})

\* frame[frame['Financial Year'] == fy].groupby(['Week', 'Week Label'],
\*     as_index=False)['Revenue'].sum()
GroupByWeek(frame, fy) ==
    LET rows == { r \in frame : r.FinancialYear = fy }
        keys == { <<r.Week, r.WeekLabel>> : r \in rows }
    IN  { [Week |-> k[1], WeekLabel |-> k[2],
           Revenue |-> SumRevenue({ r \in rows : r.Week = k[1] /\ r.WeekLabel = k[2] })]
          : k \in keys }

\* the revenue a grouped frame holds for a key; NaN, filled with 0, when none
RevenueAt(grouped, k) ==
    IF \E g \in grouped : g.Week = k[1] /\ g.WeekLabel = k[2]
    THEN (CHOOSE g \in grouped : g.Week = k[1] /\ g.WeekLabel = k[2]).Revenue
    ELSE 0

\* pd.merge(df_y1, df_y2, on=['Week', 'Week Label'], how='outer').fillna(0)
OuterMerge(df_y1, df_y2) ==
    LET keys == { <<g.Week, g.WeekLabel>> : g \in df_y1 \cup df_y2 }
    IN  { [Week |-> k[1], WeekLabel |-> k[2],
           rev1 |-> RevenueAt(df_y1, k), rev2 |-> RevenueAt(df_y2, k)] : k \in keys }

\* the row order after the merge (keys in lexicographic order) and the sort
\* on 'Week', which keeps rows of one week in the merge's order
RowBefore(a, b) ==
    \/ a.Week < b.Week
    \/ a.Week = b.Week /\ StrLess(a.WeekLabel, b.WeekLabel)

RECURSIVE SortValuesWeek(_)
SortValuesWeek(rows) ==
    IF rows = {} THEN <<>>
    ELSE LET first == CHOOSE r \in rows : \A o \in rows \ {r} : RowBefore(r, o)
         IN  <<first>> \o SortValuesWeek(rows \ {first})

\* Series.sum() and Series.cumsum() of a column of the merged frame
RECURSIVE SumCol(_, _)
SumCol(rows, col) ==
    IF Len(rows) = 0 THEN 0 ELSE rows[1][col] + SumCol(Tail(rows), col)

\* a running sum that starts over at every row
CumSumNoCarry(rows, col) == [i \in 1..Len(rows) |-> rows[i][col]]

CumSum(rows, col) == [i \in 1..Len(rows) |-> SumCol(SubSeq(rows, 1, i), col)]

\* floor(n / d) for d > 0
FloorDiv(n, d) == IF n >= 0 THEN n \div d ELSE -((-n + d - 1) \div d)

\* round(num * 100 / den, 2) in hundredths of a percent, den # 0; a value
\* half way between two hundredths goes to the even one
RoundPct(num, den) ==
    LET n == IF den < 0 THEN -(num * 10000) ELSE num * 10000
        d == IF den < 0 THEN -den ELSE den
        q == FloorDiv(n, d)
        r == n - q * d
    IN  IF 2 * r < d THEN q
        ELSE IF 2 * r > d THEN q + 1
        ELSE IF q % 2 = 0 THEN q ELSE q + 1

\* the percentage of a row taken against the row's own older revenue
VariationPctOwnRow(rev1, rev2, total_rev2) ==
    IF rev2 # 0 THEN RoundPct(rev1 - rev2, rev2) ELSE 0

\* ((row[rev1_col] - row[rev2_col]) * 100 / total_rev2) if total_rev2 != 0 else 0
VariationPct(rev1, rev2, total_rev2) ==
    IF total_rev2 # 0 THEN RoundPct(rev1 - rev2, total_rev2) ELSE 0

\* indian_format(a - b) if (a != 0 or b != 0) else '-'
VariationAmount(rev1, rev2) ==
    IF rev1 # 0 \/ rev2 # 0 THEN indian_format(rev1 - rev2) ELSE Dash

\* indian_format(x) if x != 0 else '-'
FormatOrDash(x) == IF x # 0 THEN indian_format(x) ELSE Dash

NoSection == [produced |-> FALSE]

\* the bail-out taken only when both years are missing
BailOutBoth(filtered, y1, y2) ==
    LET years == { r.FinancialYear : r \in filtered }
    IN  y1 \notin years /\ y2 \notin years

\* if fy1 not in filtered['Financial Year'].unique() or fy2 not in ...: return
BailOut(filtered, y1, y2) ==
    LET years == { r.FinancialYear : r \in filtered }
    IN  y1 \notin years \/ y2 \notin years

\* build_card(dataframe, title, domain_filter) with the globals fy1 = y1 and
\* fy2 = y2: NoSection when it returns early, else what the expander shows
build_card(dataframe, title, domain_filter, y1, y2) ==
    LET filtered == IF domain_filter # None
                    THEN { r \in dataframe : r.Domain = domain_filter }
                    ELSE dataframe
        df_y1  == GroupByWeek(filtered, y1)
        df_y2  == GroupByWeek(filtered, y2)
        merged == SortValuesWeek(OuterMerge(df_y1, df_y2))
        total_rev2 == SumCol(merged, "rev2")
        total_rev1 == SumCol(merged, "rev1")
        cum1 == CumSum(merged, "rev1")
        cum2 == CumSum(merged, "rev2")
        total_var == IF total_rev2 # 0
                     THEN RoundPct(total_rev1 - total_rev2, total_rev2) ELSE 0
    IN  IF BailOut(filtered, y1, y2) THEN NoSection
        ELSE [produced   |-> TRUE,
              title      |-> title,
              domain     |-> domain_filter,
              merged     |->
                  [i \in 1..Len(merged) |->
                      [Week            |-> merged[i].Week,
                       WeekLabel       |-> merged[i].WeekLabel,
                       rev1            |-> merged[i].rev1,
                       rev2            |-> merged[i].rev2,
                       VariationPct    |->
                           VariationPct(merged[i].rev1, merged[i].rev2, total_rev2),
                       VariationAmount |->
                           VariationAmount(merged[i].rev1, merged[i].rev2),
                       rev1_formatted  |-> FormatOrDash(merged[i].rev1),
                       rev2_formatted  |-> FormatOrDash(merged[i].rev2),
                       Cumulative1     |-> cum1[i],
                       Cumulative2     |-> cum2[i]]],
              total_rev1 |-> total_rev1,
              total_rev2 |-> total_rev2,
              total_var  |-> total_var,
              total_row  |->
                  [Week            |-> "Total",
                   rev1            |-> FormatOrDash(total_rev1),
                   rev2            |-> FormatOrDash(total_rev2),
                   VariationPct    |->
                       IF total_rev2 # 0 THEN [dash |-> FALSE, num |-> total_var]
                       ELSE [dash |-> TRUE, num |-> 0],
                   VariationAmount |-> VariationAmount(total_rev1, total_rev2)]]

-----------------------------------------------------------------------------
(* Sidebar: the two year selectors *)

\* sorted(values, reverse=True) of a set of texts
RECURSIVE SortedDesc(_)
SortedDesc(S) ==
    IF S = {} THEN <<>>
    ELSE LET top == CHOOSE x \in S : \A o \in S \ {x} : StrLess(o, x)
         IN  <<top>> \o SortedDesc(S \ {top})

\* a second selector that offers every year but the first one chosen
OtherYears(options, y1) == SelectSeq(options, LAMBDA fy : fy # y1)

\* [fy for fy in fy_options if fy < fy1]
OlderYears(options, y1) == SelectSeq(options, LAMBDA fy : StrLess(fy, y1))

-----------------------------------------------------------------------------
(* Specification Spec: one run of the script, and its rerun *)

Row(y, m, d, domain, revenue) ==
    [Date |-> Date(y, m, d), Domain |-> domain, Revenue |-> revenue]

\* the rows sales_data.xlsx is drawn from: three financial years (2022-23,
\* 2023-24 with a February 29, 2024-25), three domains of DOMAIN_ORDER and one
\* outside it, revenues that are positive, zero and negative
CandidateRows ==
    { Row(2022, 4, 1, "Training", 150),
      Row(2022, 4, 9, "Training", -150),
      Row(2023, 3, 5, "Training", 200),
      Row(2023, 4, 1, "Training", 100),
      Row(2023, 4, 3, "Training", 150),
      Row(2023, 4, 8, "Training", 200),
      Row(2024, 3, 5, "Training", 100),
      Row(2024, 4, 1, "Training", 0),
      Row(2023, 4, 1, "Other", 100),
      Row(2022, 4, 1, "Consulting", 0),
      Row(2023, 3, 5, "Consulting", 150),
      Row(2023, 4, 8, "Consulting", -100),
      Row(2024, 3, 5, "Consulting", 100),
      Row(2024, 4, 2, "Consulting", 200),
      Row(2022, 4, 1, "Z", 100),
      Row(2023, 4, 8, "Z", 0) }

Datasets == { S \in SUBSET CandidateRows : Cardinality(S) <= MaxRows }

MsgNoFile     == "Error: sales_data.xlsx file not found!"
MsgTwoYears   == "Need at least 2 financial years of data for comparison"
MsgNoOlder    == "No older financial years available for comparison"

Init ==
    /\ file_exists \in BOOLEAN
    /\ raw \in (IF file_exists THEN Datasets ELSE {{}})
    /\ df = {}
    /\ pc = "start"
    /\ fy_options = <<>>
    /\ fy1 = <<>>
    /\ available_fy2 = <<>>
    /\ fy2 = <<>>
    /\ dom_i = 0
    /\ sections = <<>>
    /\ error_msg = ""
    /\ build_calls = 0
    /\ FmtIdle
    /\ CalIdle

\* if os.path.exists(excel_path): read the file and add the three columns
LoadFile ==
    /\ pc = "start"
    /\ file_exists
    /\ df' = { [Date |-> r.Date, Domain |-> r.Domain, Revenue |-> r.Revenue,
                FinancialYear |-> get_fin_year(r.Date),
                Week |-> get_fin_week(r.Date),
                WeekLabel |-> get_week_label(r.Date)] : r \in raw }
    /\ pc' = "sidebar"
    /\ UNCHANGED <<file_exists, raw, fy_options, fy1, available_fy2, fy2, dom_i,
                   sections, error_msg, build_calls>>
    /\ UNCHANGED fmtVars
    /\ UNCHANGED calVars

\* else: st.error(...); st.stop()
FileMissing ==
    /\ pc = "start"
    /\ ~file_exists
    /\ error_msg' = MsgNoFile
    /\ pc' = "stopped"
    /\ UNCHANGED <<file_exists, raw, df, fy_options, fy1, available_fy2, fy2, dom_i,
                   sections, build_calls>>
    /\ UNCHANGED fmtVars
    /\ UNCHANGED calVars

\* fy_options = sorted(df['Financial Year'].unique(), reverse=True), fewer than 2
SidebarTooFewYears ==
    /\ pc = "sidebar"
    /\ fy_options' = SortedDesc({ r.FinancialYear : r \in df })
    /\ Len(fy_options') < 2
    /\ error_msg' = MsgTwoYears
    /\ pc' = "stopped"
    /\ UNCHANGED <<file_exists, raw, df, fy1, available_fy2, fy2, dom_i, sections,
                   build_calls>>
    /\ UNCHANGED fmtVars
    /\ UNCHANGED calVars

\* fy_options = sorted(...), at least 2: the first selector is shown
SidebarOptions ==
    /\ pc = "sidebar"
    /\ fy_options' = SortedDesc({ r.FinancialYear : r \in df })
    /\ Len(fy_options') >= 2
    /\ pc' = "select_fy1"
    /\ UNCHANGED <<file_exists, raw, df, fy1, available_fy2, fy2, dom_i, sections,
                   error_msg, build_calls>>
    /\ UNCHANGED fmtVars
    /\ UNCHANGED calVars

\* fy1 = st.selectbox(..., fy_options, index=0): any option the user picks;
\* available_fy2 is empty: st.error, st.stop
SelectFy1NoOlder ==
    /\ pc = "select_fy1"
    /\ \E k \in 1..Len(fy_options) :
          /\ fy1' = fy_options[k]
          /\ available_fy2' = OlderYears(fy_options, fy1')
    /\ Len(available_fy2') = 0
    /\ error_msg' = MsgNoOlder
    /\ pc' = "stopped"
    /\ UNCHANGED <<file_exists, raw, df, fy_options, fy2, dom_i, sections,
                   build_calls>>
    /\ UNCHANGED fmtVars
    /\ UNCHANGED calVars

\* fy1 = st.selectbox(...); available_fy2 is not empty: the second selector
SelectFy1 ==
    /\ pc = "select_fy1"
    /\ \E k \in 1..Len(fy_options) :
          /\ fy1' = fy_options[k]
          /\ available_fy2' = OlderYears(fy_options, fy1')
    /\ Len(available_fy2') > 0
    /\ pc' = "select_fy2"
    /\ UNCHANGED <<file_exists, raw, df, fy_options, fy2, dom_i, sections,
                   error_msg, build_calls>>
    /\ UNCHANGED fmtVars
    /\ UNCHANGED calVars

\* fy2 = st.selectbox(..., available_fy2, index=0): any option the user picks
SelectFy2 ==
    /\ pc = "select_fy2"
    /\ \E k \in 1..Len(available_fy2) : fy2' = available_fy2[k]
    /\ dom_i' = 1
    /\ pc' = "loop"
    /\ UNCHANGED <<file_exists, raw, df, fy_options, fy1, available_fy2, sections,
                   error_msg, build_calls>>
    /\ UNCHANGED fmtVars
    /\ UNCHANGED calVars

\* the loop moves to the next entry of DOMAIN_ORDER, or the script ends
LoopStep ==
    /\ dom_i' = dom_i + 1
    /\ pc' = IF dom_i = Len(DOMAIN_ORDER) THEN "done" ELSE "loop"

\* what the call of build_card adds to the page
Rendered(card) == IF card.produced THEN Append(sections, card) ELSE sections

\* if domain is None: build_card(df, "All Domains Combined")
LoopAllDomains ==
    /\ pc = "loop"
    /\ DOMAIN_ORDER[dom_i] = None
    /\ sections' = Rendered(build_card(df, "All Domains Combined", None, fy1, fy2))
    /\ build_calls' = build_calls + 1
    /\ LoopStep
    /\ UNCHANGED <<file_exists, raw, df, fy_options, fy1, available_fy2, fy2,
                   error_msg>>
    /\ UNCHANGED fmtVars
    /\ UNCHANGED calVars

\* else: if domain in df['Domain'].unique(): build_card(df, domain, domain)
LoopDomainPresent ==
    /\ pc = "loop"
    /\ DOMAIN_ORDER[dom_i] # None
    /\ DOMAIN_ORDER[dom_i] \in { r.Domain : r \in df }
    /\ sections' = Rendered(build_card(df, DOMAIN_ORDER[dom_i], DOMAIN_ORDER[dom_i],
                                       fy1, fy2))
    /\ build_calls' = build_calls + 1
    /\ LoopStep
    /\ UNCHANGED <<file_exists, raw, df, fy_options, fy1, available_fy2, fy2,
                   error_msg>>
    /\ UNCHANGED fmtVars
    /\ UNCHANGED calVars

\* the domain is not in the data: nothing is called
LoopDomainAbsent ==
    /\ pc = "loop"
    /\ DOMAIN_ORDER[dom_i] # None
    /\ DOMAIN_ORDER[dom_i] \notin { r.Domain : r \in df }
    /\ LoopStep
    /\ UNCHANGED <<file_exists, raw, df, fy_options, fy1, available_fy2, fy2,
                   sections, error_msg, build_calls>>
    /\ UNCHANGED fmtVars
    /\ UNCHANGED calVars

\* a change of a selector runs the whole script again, from its first line
Rerun ==
    /\ pc \in {"done", "stopped"}
    /\ df' = {}
    /\ pc' = "start"
    /\ fy_options' = <<>>
    /\ fy1' = <<>>
    /\ available_fy2' = <<>>
    /\ fy2' = <<>>
    /\ dom_i' = 0
    /\ sections' = <<>>
    /\ error_msg' = ""
    /\ build_calls' = 0
    /\ UNCHANGED <<file_exists, raw>>
    /\ UNCHANGED fmtVars
    /\ UNCHANGED calVars

Next ==
    \/ LoadFile
    \/ FileMissing
    \/ SidebarTooFewYears
    \/ SidebarOptions
    \/ SelectFy1NoOlder
    \/ SelectFy1
    \/ SelectFy2
    \/ LoopAllDomains
    \/ LoopDomainPresent
    \/ LoopDomainAbsent
    \/ Rerun

Spec == Init /\ [][Next]_vars

-----------------------------------------------------------------------------
(* Properties of the number formatter, under SpecFmt *)

DigitVal(c) == (CHOOSE i \in 1..10 : DigitChars[i] = c) - 1

IsDigit(c) == \E i \in 1..10 : DigitChars[i] = c

\* the number a text of decimal digits denotes
RECURSIVE DigitsValue(_)
DigitsValue(t) ==
    IF Len(t) = 0 THEN 0
    ELSE 10 * DigitsValue(SubSeq(t, 1, Len(t) - 1)) + DigitVal(t[Len(t)])

\* C2: for every negative integer x, indian_format(x) is "-" followed by
\* indian_format(-x): the grouping is applied to the magnitude and the sign
\* is put in front of it.
C2_NegativeIsMinusThenMagnitude ==
    (fmt_pc = "returned" /\ fmt_x < 0)
        => fmt_out = <<"-">> \o indian_format(-fmt_x)

\* C3: for every non-negative integer x, indian_format(x) is the decimal
\* digits of x (no digit lost, added or reordered, no leading zero), with a
\* comma exactly before the last three digits and then before every further
\* pair of digits counted from the right that has a digit in front of it; no
\* group is empty and the text does not start with a comma.  1234567 gives
\* "12,34,567", 100 gives "100" and 0 gives "0".
C3_GroupingOfNonNegative ==
    (fmt_pc = "returned" /\ fmt_x >= 0) =>
        LET n      == Len(fmt_out)
            digits == SelectSeq(fmt_out, LAMBDA c : c # ",")
        IN  /\ n >= 1
            /\ \A i \in 1..Len(digits) : IsDigit(digits[i])
            /\ DigitsValue(digits) = fmt_x
            /\ (Len(digits) > 1 => digits[1] # "0")
            \* position i counted from the right: 1-3 digits, 4 comma,
            \* 5-6 digits, 7 comma, 8-9 digits, 10 comma, ...
            /\ \A i \in 1..n :
                  (fmt_out[n + 1 - i] = ",") <=> (i >= 4 /\ (i - 4) % 3 = 0)
            /\ fmt_out[1] # ","
            /\ (fmt_x = 1234567 =>
                  fmt_out = <<"1", "2", ",", "3", "4", ",", "5", "6", "7">>)
            /\ (fmt_x = 100 => fmt_out = <<"1", "0", "0">>)
            /\ (fmt_x = 0 => fmt_out = <<"0">>)

\* C3 witness: the formatter has returned "12,34,567" for 1234567
C3_Witness ==
    /\ fmt_pc = "returned"
    /\ fmt_x = 1234567
    /\ fmt_out = <<"1", "2", ",", "3", "4", ",", "5", "6", "7">>

-----------------------------------------------------------------------------
(* Properties of the calendar mapper, under SpecCal *)

\* a <= b on dates, by year, then month, then day
DateLeq(a, b) ==
    \/ a.year < b.year
    \/ a.year = b.year /\ a.month < b.month
    \/ a.year = b.year /\ a.month = b.month /\ a.day <= b.day

\* d lies in the twelve months from April 1 of Y to March 31 of Y + 1
InFinancialYear(d, Y) ==
    DateLeq(Date(Y, 4, 1), d) /\ DateLeq(d, Date(Y + 1, 3, 31))

\* the label reads "{y-1}-{last two digits of y}" before April and
\* "{y}-{last two digits of y+1}" from April on
LabelIsOf(label, d) ==
    /\ Len(label) = 7
    /\ \A i \in {1, 2, 3, 4, 6, 7} : IsDigit(label[i])
    /\ label[5] = "-"
    /\ DigitsValue(SubSeq(label, 1, 4)) = (IF d.month < 4 THEN d.year - 1 ELSE d.year)
    /\ DigitsValue(SubSeq(label, 6, 7)) =
           (IF d.month < 4 THEN d.year % 100 ELSE (d.year + 1) % 100)

\* C4: get_fin_year(d) is "{y-1}-{yy of y}" when d.month < 4 and
\* "{y}-{yy of y+1}" otherwise; two dates get the same label exactly when
\* both lie between April 1 of one year Y and March 31 of Y + 1, so dates on
\* the two sides of an April 1 get different labels.
C4_FinancialYearLabel ==
    (ann_a # NoAnn) =>
        /\ LabelIsOf(ann_a.fy, cal_a)
        /\ LabelIsOf(ann_b.fy, cal_b)
        /\ (ann_a.fy = ann_b.fy)
             <=> (\E Y \in (cal_a.year - 1) .. cal_a.year :
                     InFinancialYear(cal_a, Y) /\ InFinancialYear(cal_b, Y))

\* C4 witness: a date from April on and a date before April of the next
\* calendar year carry one label
C4_Witness ==
    /\ ann_a # NoAnn
    /\ cal_a.month >= 4
    /\ cal_b.month < 4
    /\ cal_b.year = cal_a.year + 1
    /\ ann_a.fy = ann_b.fy

\* C5: for dates cal_a <= cal_b with the same financial-year label the week
\* number of cal_a is at most that of cal_b; every week number is at least 1;
\* April 1 is in week 1.
C5_WeekMonotone ==
    (ann_a # NoAnn) =>
        /\ DateLeq(cal_a, cal_b)
        /\ (ann_a.fy = ann_b.fy => ann_a.week <= ann_b.week)
        /\ ann_a.week >= 1
        /\ ann_b.week >= 1
        /\ (cal_b.month = 4 /\ cal_b.day = 1 => ann_b.week = 1)
        /\ (cal_a.month = 4 /\ cal_a.day = 1 => ann_a.week = 1)

\* C5 witness: April 1 in week 1 and a later date of the same financial year
\* in a later week
C5_Witness ==
    /\ ann_a # NoAnn
    /\ cal_a.month = 4
    /\ cal_a.day = 1
    /\ ann_a.week = 1
    /\ ann_a.fy = ann_b.fy
    /\ ann_b.week = 53

-----------------------------------------------------------------------------
(* Properties of the year selection, under Spec *)

\* the calendar year in which the financial year of a date starts
FYStartYear(d) == IF d.month >= 4 THEN d.year ELSE d.year - 1

\* the start years of the rows that carry a financial-year label
StartYearsOf(label) ==
    { FYStartYear(r.Date) : r \in { x \in df : x.FinancialYear = label } }

YearsInData == { FYStartYear(r.Date) : r \in raw }

\* C1: whenever build_card has been called or a section exists, both
\* selected labels occur in the dataset and fy2's financial year starts
\* before fy1's; with fewer than two financial years in the data, or with no
\* financial year older than the chosen fy1, the run has stopped with the
\* message and build_card was never called.
C1_YearSelection ==
    /\ (pc \in {"loop", "done"} \/ build_calls > 0 \/ sections # <<>>) =>
          /\ StartYearsOf(fy1) # {}
          /\ StartYearsOf(fy2) # {}
          /\ \A older \in StartYearsOf(fy2), recent \in StartYearsOf(fy1) :
                older < recent
    /\ (file_exists /\ pc \notin {"start", "sidebar"}
            /\ Cardinality(YearsInData) < 2) =>
          /\ pc = "stopped"
          /\ error_msg = MsgTwoYears
          /\ build_calls = 0
          /\ sections = <<>>
    /\ (file_exists /\ pc \notin {"start", "sidebar", "select_fy1"}
            /\ Cardinality(YearsInData) >= 2
            /\ \A y \in YearsInData : \A recent \in StartYearsOf(fy1) : y >= recent) =>
          /\ pc = "stopped"
          /\ error_msg = MsgNoOlder
          /\ build_calls = 0
          /\ sections = <<>>

\* C1 witness: three financial years in the data, the user chose the middle
\* one as fy1, and the sections were built
C1_Witness ==
    /\ pc = "done"
    /\ Len(fy_options) = 3
    /\ fy1 = fy_options[2]
    /\ fy2 = fy_options[3]
    /\ build_calls > 0
    /\ sections # <<>>

-----------------------------------------------------------------------------
(* Properties of the report sections, under Spec *)

\* the rows of the dataframe a section of a domain is about
RowsOfDomain(domain) ==
    IF domain = None THEN df ELSE { r \in df : r.Domain = domain }

\* both selected years have a transaction among the rows of the domain
HasBothYears(domain) ==
    /\ \E r \in RowsOfDomain(domain) : r.FinancialYear = fy1
    /\ \E r \in RowsOfDomain(domain) : r.FinancialYear = fy2

\* the domains of the sections on the page, in page order
SectionDomains == [k \in 1..Len(sections) |-> sections[k].domain]

\* C6: a domain whose rows lack fy1 or fy2 gets no section and no error is
\* shown; a domain of DOMAIN_ORDER without any row gets no section; the
\* loop still goes on, so the sections on the page are exactly the entries
\* of DOMAIN_ORDER handled so far that have both years, in that order, and
\* at the end every entry has been handled.
C6_SilentSkip ==
    (pc \in {"loop", "done"}) =>
        /\ SectionDomains =
              SelectSeq(SubSeq(DOMAIN_ORDER, 1, dom_i - 1), HasBothYears)
        /\ error_msg = ""
        /\ (pc = "done" => dom_i = Len(DOMAIN_ORDER) + 1)
        /\ \A k \in 1..Len(DOMAIN_ORDER) :
              (DOMAIN_ORDER[k] # None /\ RowsOfDomain(DOMAIN_ORDER[k]) = {})
                  => \A j \in 1..Len(sections) : sections[j].domain # DOMAIN_ORDER[k]

\* C6 witness: Training has rows but not both years and got no section,
\* and the section of Consulting, later in the order, was still built
C6_Witness ==
    /\ pc = "done"
    /\ RowsOfDomain("Training") # {}
    /\ ~HasBothYears("Training")
    /\ \A j \in 1..Len(sections) : sections[j].domain # "Training"
    /\ \E j \in 1..Len(sections) : sections[j].domain = "Consulting"
    /\ error_msg = ""

\* the rows of a section's domain in one financial year and one week
RowsInWeek(domain, fy, w) ==
    { r \in RowsOfDomain(domain) : r.FinancialYear = fy /\ r.Week = w }

\* the weeks in which a section's domain has a row in either selected year
WeeksOf(domain) ==
    { r.Week : r \in { x \in RowsOfDomain(domain) : x.FinancialYear \in {fy1, fy2} } }

ScenarioRows ==
    { Row(2023, 4, 1, "Training", 100),
      Row(2023, 4, 8, "Training", 200),
      Row(2022, 4, 1, "Training", 150) }

\* C7: in every section, each week with a row in either selected year is a
\* per-week row whose two revenues are that year's sums for the week (0 when
\* the year has none), and the rows are in ascending week order.  With the
\* rows 100 on 2023-04-01, 200 on 2023-04-08 and 150 on 2022-04-01, fy1 =
\* 2023-24 and fy2 = 2022-23: week 1 = (100, 150, "-50"), week 2 = (200, 0),
\* totals 300 and 150, total variation 100.00 percent.
C7_WeeklyRows ==
    \A k \in 1..Len(sections) :
        LET s == sections[k]
        IN  /\ \A w \in WeeksOf(s.domain) :
                  \E i \in 1..Len(s.merged) :
                      /\ s.merged[i].Week = w
                      /\ s.merged[i].rev1 = SumRevenue(RowsInWeek(s.domain, fy1, w))
                      /\ s.merged[i].rev2 = SumRevenue(RowsInWeek(s.domain, fy2, w))
            /\ \A i \in 1..Len(s.merged) : s.merged[i].Week \in WeeksOf(s.domain)
            /\ \A i, j \in 1..Len(s.merged) :
                  i < j => s.merged[i].Week <= s.merged[j].Week
            /\ (raw = ScenarioRows /\ s.domain = "Training") =>
                  /\ Len(s.merged) = 2
                  /\ s.merged[1].Week = 1
                  /\ s.merged[1].rev1 = 100
                  /\ s.merged[1].rev2 = 150
                  /\ s.merged[1].VariationAmount = <<"-", "5", "0">>
                  /\ s.merged[2].Week = 2
                  /\ s.merged[2].rev1 = 200
                  /\ s.merged[2].rev2 = 0
                  /\ s.total_rev1 = 300
                  /\ s.total_rev2 = 150
                  /\ s.total_var = 10000

\* the sum of a column over the rows 1..n of a section's table
RECURSIVE ColumnSumTo(_, _, _)
ColumnSumTo(rows, col, n) ==
    IF n = 0 THEN 0 ELSE ColumnSumTo(rows, col, n - 1) + rows[n][col]

\* C8: in every section the per-week revenues of the recent year add up to
\* total_rev1 and those of the older year to total_rev2, and the last value
\* of each cumulative series is that year's total.
C8_TotalsAreSums ==
    \A k \in 1..Len(sections) :
        LET s == sections[k]
            n == Len(s.merged)
        IN  /\ n >= 1
            /\ ColumnSumTo(s.merged, "rev1", n) = s.total_rev1
            /\ ColumnSumTo(s.merged, "rev2", n) = s.total_rev2
            /\ s.merged[n].Cumulative1 = s.total_rev1
            /\ s.merged[n].Cumulative2 = s.total_rev2

\* C8 witness: a section of several weeks whose last cumulative value is
\* the total and not the last week's revenue
C8_Witness ==
    \E k \in 1..Len(sections) :
        LET s == sections[k]
            n == Len(s.merged)
        IN  /\ n >= 3
            /\ s.merged[n].Cumulative1 = s.total_rev1
            /\ s.merged[n].rev1 # s.total_rev1
            /\ s.merged[n].Cumulative2 = s.total_rev2
            /\ s.merged[n].rev2 # s.total_rev2

Abs(x) == IF x < 0 THEN -x ELSE x

\* the older year's revenue over all rows of a section's domain
OlderTotal(domain) ==
    SumRevenue({ r \in RowsOfDomain(domain) : r.FinancialYear = fy2 })

C10_OneRowPerWeek ==
    \A k \in 1..Len(sections) :
        \A i, j \in 1..Len(sections[k].merged) :
            i # j => sections[k].merged[i].Week # sections[k].merged[j].Week

====
